---- MODULE Spec2Model ----
(***************************************************************************)
(* The tallying engine of res-publica (tally, tallyFPTP, tallySPSV,        *)
(* kotzePereira, max) as a state machine: one action per loop iteration    *)
(* or call boundary of the TypeScript source.                              *)
(*                                                                         *)
(* Option identifiers are strings in the source; here they are the         *)
(* naturals 1..NumIds, whose numeric order stands for the code-unit order  *)
(* Array.prototype.sort() uses on strings.  Scores are the rationals       *)
(* 1/(1+k) of the source scaled by Scale, so that every weight is an       *)
(* integer and sums compare exactly.                                       *)
(***************************************************************************)
EXTENDS Integers, Sequences, FiniteSets, TLC

\* ---------------------------------------------------------------- bounds
\* NumIds: identifiers in use; MaxBallots: score ballots cast; MaxChoices:
\* choose-one ballots cast; MaxSeats: largest seats argument and positions;
\* MaxRating: type.max (type.min is 0); MaxResigned: length of vote.resigned;
\* MaxCalls: invocations of tally on one input; MaxVoters: length of
\* DummyAPIClient.registeredVoters.
NumIds == 3
MaxBallots == 2
MaxChoices == 3
MaxSeats == 3
MaxRating == 1
MaxResigned == 2
MaxCalls == 2
MaxVoters == 4

Ids == 1..NumIds

\* The value JavaScript yields for seq[0] of an empty array.
Undefined == 0

\* The identifiers of the four-candidate elections: one more than Ids, so that
\* two seats can be taken while two candidates still compete for the next.
WideIds == 1..(NumIds + 1)

\* The keys at which the Maps are read (get(x) || 0): every identifier, and
\* undefined.
MapKeys == WideIds \cup {Undefined}

RECURSIVE Fact(_)
Fact(n) == IF n <= 1 THEN 1 ELSE n * Fact(n - 1)

\* Common denominator of the weights 1/(1+k), k <= NumIds.
Scale == Fact(NumIds + 1)

\* ------------------------------------------------------- array helpers
includes(seq, x) == \E k \in 1..Len(seq) : seq[k] = x

Range(seq) == {seq[k] : k \in 1..Len(seq)}

Occurrences(seq, x) == Cardinality({k \in 1..Len(seq) : seq[k] = x})

RECURSIVE SumTo(_, _)
SumTo(f, n) == IF n = 0 THEN 0 ELSE f[n] + SumTo(f, n - 1)

RECURSIVE flat(_)
flat(seqs) == IF seqs = <<>> THEN <<>> ELSE Head(seqs) \o flat(Tail(seqs))

IsPrefix(s, t) == Len(s) <= Len(t) /\ SubSeq(t, 1, Len(s)) = s

Injective(s) == \A j, k \in 1..Len(s) : s[j] = s[k] => j = k

\* Array.prototype.sort() on the identifiers: ascending.
RECURSIVE sortDescending(_)
sortDescending(seq) ==
    IF seq = <<>> THEN <<>>
    ELSE LET m == CHOOSE x \in Range(seq) : \A y \in Range(seq) : x >= y
             k == CHOOSE j \in 1..Len(seq) :
                      seq[j] = m /\ \A h \in 1..(j - 1) : seq[h] # m
         IN <<m>> \o sortDescending(SubSeq(seq, 1, k - 1) \o SubSeq(seq, k + 1, Len(seq)))

sortKeepsOrder(seq) == seq

RECURSIVE sort(_)
sort(seq) ==
    IF seq = <<>> THEN <<>>
    ELSE LET m == CHOOSE x \in Range(seq) : \A y \in Range(seq) : x <= y
             k == CHOOSE j \in 1..Len(seq) :
                      seq[j] = m /\ \A h \in 1..(j - 1) : seq[h] # m
         IN <<m>> \o sort(SubSeq(seq, 1, k - 1) \o SubSeq(seq, k + 1, Len(seq)))

\* max(seq, getProp): the first item whose property is strictly greater than
\* that of every item before it; seq[0] (undefined) for an empty array.
maxGE(seq, prop) ==
    IF seq = <<>> THEN Undefined
    ELSE LET best[k \in 1..Len(seq)] ==
                 IF k = 1 THEN seq[1]
                 ELSE IF prop[seq[k]] >= prop[best[k - 1]] THEN seq[k] ELSE best[k - 1]
         IN best[Len(seq)]

max(seq, prop) ==
    IF seq = <<>> THEN Undefined
    ELSE LET best[k \in 1..Len(seq)] ==
                 IF k = 1 THEN seq[1]
                 ELSE IF prop[seq[k]] > prop[best[k - 1]] THEN seq[k] ELSE best[k - 1]
         IN best[Len(seq)]

Min(a, b) == IF a < b THEN a ELSE b

\* ------------------------------------------------------------ tallyFPTP
\* The Map built by the ballot loop, read as counts.get(x) || 0.
fptpCounts(vote, blts) ==
    [x \in MapKeys |->
        Cardinality({k \in 1..Len(blts) :
            /\ ~includes(vote.resigned, blts[k].selectedOptionId)
            /\ blts[k].selectedOptionId = x})]

\* One iteration of the ballot loop: a ballot for a resigned option is skipped
\* (continue), any other raises the count of its selected option by one.
fptpCountBallotAll(cnt, vote, ballot) ==
    [cnt EXCEPT ![ballot.selectedOptionId] = @ + 1]

fptpCountBallot(cnt, vote, ballot) ==
    IF includes(vote.resigned, ballot.selectedOptionId)
    THEN cnt
    ELSE [cnt EXCEPT ![ballot.selectedOptionId] = @ + 1]

\* seats = seats || 1
fptpSeats(s) == IF s = 0 THEN 1 ELSE s

optionIds(vote) == [k \in 1..Len(vote.options) |-> vote.options[k].id]

\* One iteration of the while loop: <<results, sortedOptions>> after it.
fptpRoundKeepsWinner(res, sorted, cnt) ==
    LET winner == max(sorted, cnt)
    IN <<Append(res, winner), sorted>>

fptpRoundPrepends(res, sorted, cnt) ==
    LET winner == max(sorted, cnt)
    IN <<(<<winner>> \o res), SelectSeq(sorted, LAMBDA x : x # winner)>>

fptpRound(res, sorted, cnt) ==
    LET winner == max(sorted, cnt)
    IN <<Append(res, winner), SelectSeq(sorted, LAMBDA x : x # winner)>>

RECURSIVE fptpLoop(_, _, _, _)
fptpLoop(res, sorted, cnt, s) ==
    IF Len(res) < s
    THEN LET nxt == fptpRound(res, sorted, cnt) IN fptpLoop(nxt[1], nxt[2], cnt, s)
    ELSE res

tallyFPTP(vote, blts, s) ==
    fptpLoop(<<>>, sort(optionIds(vote)), fptpCounts(vote, blts), fptpSeats(s))

\* --------------------------------------------------------- kotzePereira
\* The virtual ballot pushed by the loop iteration of threshold i.
kpVirtualBallotGT(ballot, i) ==
    LET kept == SelectSeq(ballot.ratingPerOption, LAMBDA x : x.rating > i)
    IN [k \in 1..Len(kept) |-> kept[k].optionId]

kpVirtualBallot(ballot, i) ==
    LET kept == SelectSeq(ballot.ratingPerOption, LAMBDA x : x.rating >= i)
    IN [k \in 1..Len(kept) |-> kept[k].optionId]

kotzePereira(ballot, type) ==
    [j \in 1..(type.max - type.min + 1) |-> kpVirtualBallot(ballot, type.min + j - 1)]

\* ------------------------------------------------------------ tallySPSV
spsvVirtualBallotsDropsLast(vote, blts) ==
    flat([b \in 1..(Len(blts) - 1) |-> kotzePereira(blts[b], vote.type)])

spsvVirtualBallots(vote, blts) ==
    flat([b \in 1..Len(blts) |-> kotzePereira(blts[b], vote.type)])

\* The candidates sorted by ID, without those of the resigned argument
\* (<<>> stands for an omitted argument: filtering by it removes nothing).
spsvCandidatesAll(vote, rsg) == sort(optionIds(vote))

spsvCandidates(vote, rsg) ==
    SelectSeq(sort(optionIds(vote)), LAMBDA x : ~includes(rsg, x))

\* seats || Math.min(ballotType.positions, sortedCandidates.length)
spsvSeatCountCapped(vote, s, sorted) ==
    Min(IF s # 0 THEN s ELSE vote.type.positions, Len(sorted))

spsvSeatCount(vote, s, sorted) ==
    IF s # 0 THEN s ELSE Min(vote.type.positions, Len(sorted))

\* The Map built by one pass over the virtual ballots, read as
\* candidateScores.get(x) || 0, in units of 1/Scale.
spsvScoresUnweighted(vbs, el) ==
    [c \in MapKeys |->
        SumTo([b \in 1..Len(vbs) |->
                  LET notYetElected == SelectSeq(vbs[b], LAMBDA x : ~includes(el, x))
                  IN Scale * Occurrences(notYetElected, c)],
              Len(vbs))]

\* candidateScores kept from round to round: the sum of the passes made so far.
spsvScoresCarried(vbs, el) ==
    [c \in MapKeys |->
        SumTo([r \in 1..(Len(el) + 1) |->
                  SumTo([b \in 1..Len(vbs) |->
                            LET before == SubSeq(el, 1, r - 1)
                                notYetElected ==
                                    SelectSeq(vbs[b], LAMBDA x : ~includes(before, x))
                                alreadyElectedCount == Len(vbs[b]) - Len(notYetElected)
                                weight == Scale \div (1 + alreadyElectedCount)
                            IN weight * Occurrences(notYetElected, c)],
                        Len(vbs))],
              Len(el) + 1)]

spsvScores(vbs, el) ==
    [c \in MapKeys |->
        SumTo([b \in 1..Len(vbs) |->
                  LET notYetElected == SelectSeq(vbs[b], LAMBDA x : ~includes(el, x))
                      alreadyElectedCount == Len(vbs[b]) - Len(notYetElected)
                      weight == Scale \div (1 + alreadyElectedCount)
                  IN weight * Occurrences(notYetElected, c)],
              Len(vbs))]

\* One iteration of the while loop: the new elected array.
spsvRoundSkipsUndefined(vbs, sorted, el) ==
    LET candidates == SelectSeq(sorted, LAMBDA x : ~includes(el, x))
        bestCandidate == max(candidates, spsvScores(vbs, el))
    IN IF bestCandidate = Undefined THEN el ELSE Append(el, bestCandidate)

spsvRoundKeepsElected(vbs, sorted, el) ==
    LET bestCandidate == max(sorted, spsvScores(vbs, el))
    IN Append(el, bestCandidate)

spsvRound(vbs, sorted, el) ==
    LET candidates == SelectSeq(sorted, LAMBDA x : ~includes(el, x))
        bestCandidate == max(candidates, spsvScores(vbs, el))
    IN Append(el, bestCandidate)

RECURSIVE spsvLoop(_, _, _, _)
spsvLoop(vbs, sorted, el, n) ==
    IF Len(el) < n THEN spsvLoop(vbs, sorted, spsvRound(vbs, sorted, el), n) ELSE el

tallySPSV(vote, blts, s, preElected, rsg) ==
    LET sorted == spsvCandidates(vote, rsg)
    IN spsvLoop(spsvVirtualBallots(vote, blts), sorted, preElected,
                spsvSeatCount(vote, s, sorted))

\* ---------------------------------------------------------------- tally
\* The pre-elected argument of replay step k: the previous result without
\* the identifiers of resigned.slice(0, k).
replayPreElectedNone(res, slice) == <<>>

replayPreElectedDropsFirst(res, slice) ==
    LET kept == SelectSeq(res, LAMBDA x : ~includes(slice, x))
    IN IF kept = <<>> THEN <<>> ELSE Tail(kept)

replayPreElected(res, slice) == SelectSeq(res, LAMBDA x : ~includes(slice, x))

RECURSIVE replay(_, _, _, _, _)
replay(vote, blts, s, res, k) ==
    IF k <= Len(vote.resigned)
    THEN LET resignedSlice == SubSeq(vote.resigned, 1, k)
         IN replay(vote, blts, s,
                   tallySPSV(vote, blts, s, replayPreElected(res, resignedSlice),
                             resignedSlice),
                   k + 1)
    ELSE res

tally(vote, blts, s) ==
    IF vote.type.tally = "first-past-the-post"
    THEN tallyFPTP(vote, blts, s)
    ELSE replay(vote, blts, s, tallySPSV(vote, blts, s, <<>>, <<>>), 1)

\* ------------------------------------------- VoteCard.render: the order
\* Array.prototype.indexOf, counted from 0; -1 when x is absent.
indexOf(seq, x) ==
    IF includes(seq, x)
    THEN (CHOOSE k \in 1..Len(seq) : seq[k] = x /\ \A h \in 1..(k - 1) : seq[h] # x) - 1
    ELSE -1

\* vote.options.sort((a, b) => ranking.indexOf(a.id) - ranking.indexOf(b.id)):
\* ascending position in ranking, equal positions in their previous order.
RECURSIVE sortByRanking(_, _)
sortByRanking(opts, rnk) ==
    IF opts = <<>> THEN <<>>
    ELSE LET k == CHOOSE j \in 1..Len(opts) :
                      /\ \A h \in 1..Len(opts) : indexOf(rnk, opts[j].id) <= indexOf(rnk, opts[h].id)
                      /\ \A h \in 1..(j - 1) : indexOf(rnk, opts[h].id) # indexOf(rnk, opts[j].id)
         IN <<opts[k]>> \o sortByRanking(SubSeq(opts, 1, k - 1) \o SubSeq(opts, k + 1, Len(opts)), rnk)

\* tallyOrder: the full ordering of the options, every option being given a
\* seat; for spsv without resignation filtering.
tallyOrder(vote, blts) ==
    IF vote.type.tally = "first-past-the-post"
    THEN tallyFPTP(vote, blts, Len(vote.options))
    ELSE tallySPSV(vote, blts, Len(vote.options), <<>>, <<>>)

\* ------------------------------------------------------------ the inputs
SeqsUpTo(S, n) == UNION {[1..k -> S] : k \in 0..n}

InjectiveSeqs(S, n) == {q \in SeqsUpTo(S, n) : Injective(q)}

\* vote.options: distinct identifiers, in any declared order.
OptionLists == {[k \in 1..Len(q) |-> [id |-> q[k]]] : q \in InjectiveSeqs(Ids, NumIds)}

\* vote.resigned (<<>> also stands for an absent list).
ResignedLists == InjectiveSeqs(Ids, MaxResigned)

ChooseOneBallotType == {[tally |-> "first-past-the-post"]}

RateOptionsBallotType ==
    {[tally |-> "spsv", positions |-> p, min |-> 0, max |-> MaxRating] : p \in 1..MaxSeats}

ChooseOneBallots == {[selectedOptionId |-> x] : x \in Ids}

\* The score ballots that can be submitted for a vote (isCompleteBallot): one
\* entry per declared option and no other, here in ascending identifier order.
RatingEntries(f, ids) == [k \in 1..Len(ids) |-> [optionId |-> ids[k], rating |-> f[ids[k]]]]

RateOptionsBallots(opts) ==
    LET ids == sort([k \in 1..Len(opts) |-> opts[k].id])
    IN {[ratingPerOption |-> RatingEntries(f, ids)] : f \in [Range(ids) -> 0..MaxRating]}

VARIABLES
    vote,             \* voteAndBallots.vote
    ballots,          \* voteAndBallots.ballots
    seats,            \* the seats argument of tally; 0 when omitted
    pc,               \* position in tally: start, count, fptp, spsv, replay, done
    counts,           \* tallyFPTP: counts
    sortedOptions,    \* tallyFPTP: sortedOptions
    results,          \* tallyFPTP: results
    virtualBallots,   \* tallySPSV: virtualBallots
    sortedCandidates, \* tallySPSV: sortedCandidates
    seatCount,        \* tallySPSV: seatCount; tallyFPTP: seats after defaulting
    candidateScores,  \* tallySPSV: candidateScores of the latest loop iteration
    elected,          \* tallySPSV: elected
    i,                \* tally: the replay index, 0 during the base allocation
    result,           \* tally: result; the returned value once pc = "done"
    counted,          \* tallyFPTP: ballots the for-of loop has gone through
    shouldTally,      \* VoteCard.render: shouldTally
    ranking,          \* VoteCard.render: ranking
    winners,          \* VoteCard.render: talliedVote.winners
    earlier,          \* the values the earlier invocations of tally returned
    registeredVoters, \* DummyAPIClient: registeredVoters
    lastCall          \* DummyAPIClient: the latest completed call, with its argument
                      \* and the list it found

vars == <<vote, ballots, seats, pc, counts, sortedOptions, results, virtualBallots,
          sortedCandidates, seatCount, candidateScores, elected, i, result, counted,
          shouldTally, ranking, winners, earlier, registeredVoters, lastCall>>

\* The state of DummyAPIClient.
clientVars == <<registeredVoters, lastCall>>

Usernames == {"donald-duck", "daisy-duck", "gladstone-gander"}

NoCall == [method |-> "none", username |-> "", before |-> <<>>]

\* private registeredVoters: string[] = ["donald-duck"], no call made yet.
ClientConstructed ==
    /\ registeredVoters = <<"donald-duck">>
    /\ lastCall = NoCall

\* What belongs to the callers of tally and is out of its reach: the locals
\* of VoteCard.render, the values returned so far and the state of the client.
callerVars == <<shouldTally, ranking, winners, earlier, registeredVoters, lastCall>>

NoCounts == [x \in MapKeys |-> 0]

Locals0 ==
    /\ pc = "start"
    /\ counts = NoCounts
    /\ sortedOptions = <<>>
    /\ results = <<>>
    /\ virtualBallots = <<>>
    /\ sortedCandidates = <<>>
    /\ seatCount = 0
    /\ candidateScores = NoCounts
    /\ elected = <<>>
    /\ i = 0
    /\ result = <<>>
    /\ counted = 0
    /\ shouldTally = FALSE
    /\ ranking = <<>>
    /\ winners = <<>>
    /\ earlier = <<>>
    /\ ClientConstructed

InitFPTP ==
    /\ vote \in [type : ChooseOneBallotType, options : OptionLists, resigned : ResignedLists]
    /\ ballots \in SeqsUpTo(ChooseOneBallots, MaxChoices)
    /\ seats \in 0..MaxSeats
    /\ Locals0

\* positions is read only when seats is omitted.
InitSPSV ==
    /\ vote \in [type : RateOptionsBallotType, options : OptionLists, resigned : ResignedLists]
    /\ ballots \in SeqsUpTo(RateOptionsBallots(vote.options), MaxBallots)
    /\ seats \in 0..MaxSeats
    /\ seats # 0 => vote.type.positions = 1
    /\ Locals0

Init == InitFPTP \/ InitSPSV

\* -------------------------------------------------------------- actions
\* tally dispatches to tallyFPTP: seats is defaulted and counts is a new Map.
FPTPStart ==
    /\ pc = "start"
    /\ vote.type.tally = "first-past-the-post"
    /\ seatCount' = fptpSeats(seats)
    /\ counts' = NoCounts
    /\ counted' = 0
    /\ pc' = "count"
    /\ UNCHANGED <<vote, ballots, seats, sortedOptions, results, virtualBallots,
                   sortedCandidates, candidateScores, elected, i, result>>
    /\ UNCHANGED callerVars

\* One iteration of tallyFPTP's for-of loop over the ballots.
FPTPCount ==
    /\ pc = "count"
    /\ counted < Len(ballots)
    /\ counts' = fptpCountBallot(counts, vote, ballots[counted + 1])
    /\ counted' = counted + 1
    /\ UNCHANGED <<vote, ballots, seats, pc, sortedOptions, results, virtualBallots,
                   sortedCandidates, seatCount, candidateScores, elected, i, result>>
    /\ UNCHANGED callerVars

\* The ballots are counted: the option identifiers are sorted, results = [].
FPTPSortCached ==
    /\ pc = "count"
    /\ ~(counted < Len(ballots))
    /\ sortedOptions' = IF sortedOptions = <<>> THEN sort(optionIds(vote)) ELSE sortedOptions
    /\ results' = <<>>
    /\ pc' = "fptp"
    /\ UNCHANGED <<vote, ballots, seats, counts, virtualBallots, sortedCandidates,
                   seatCount, candidateScores, elected, i, result, counted>>
    /\ UNCHANGED callerVars

FPTPSort ==
    /\ pc = "count"
    /\ ~(counted < Len(ballots))
    /\ sortedOptions' = sort(optionIds(vote))
    /\ results' = <<>>
    /\ pc' = "fptp"
    /\ UNCHANGED <<vote, ballots, seats, counts, virtualBallots, sortedCandidates,
                   seatCount, candidateScores, elected, i, result, counted>>
    /\ UNCHANGED callerVars

\* One iteration of tallyFPTP's while loop.
FPTPRound ==
    /\ pc = "fptp"
    /\ Len(results) < seatCount
    /\ LET nxt == fptpRound(results, sortedOptions, counts)
       IN results' = nxt[1] /\ sortedOptions' = nxt[2]
    /\ UNCHANGED <<vote, ballots, seats, pc, counts, virtualBallots, sortedCandidates,
                   seatCount, candidateScores, elected, i, result, counted>>
    /\ UNCHANGED callerVars

\* tallyFPTP returns results and tally returns it.
FPTPReturn ==
    /\ pc = "fptp"
    /\ ~(Len(results) < seatCount)
    /\ result' = results
    /\ pc' = "done"
    /\ UNCHANGED <<vote, ballots, seats, counts, sortedOptions, results, virtualBallots,
                   sortedCandidates, seatCount, candidateScores, elected, i, counted>>
    /\ UNCHANGED callerVars

\* tally calls tallySPSV(voteAndBallots, seats): the base allocation.
SPSVStartSortsInPlace ==
    /\ pc = "start"
    /\ vote.type.tally = "spsv"
    /\ vote' = [vote EXCEPT !.options = [k \in 1..Len(@) |-> [id |-> sort(optionIds(vote))[k]]]]
    /\ virtualBallots' = spsvVirtualBallots(vote, ballots)
    /\ sortedCandidates' = spsvCandidates(vote, <<>>)
    /\ seatCount' = spsvSeatCount(vote, seats, spsvCandidates(vote, <<>>))
    /\ elected' = <<>>
    /\ i' = 0
    /\ pc' = "spsv"
    /\ UNCHANGED <<ballots, seats, counts, sortedOptions, results, candidateScores,
                   result, counted>>
    /\ UNCHANGED callerVars

SPSVStart ==
    /\ pc = "start"
    /\ vote.type.tally = "spsv"
    /\ virtualBallots' = spsvVirtualBallots(vote, ballots)
    /\ sortedCandidates' = spsvCandidates(vote, <<>>)
    /\ seatCount' = spsvSeatCount(vote, seats, spsvCandidates(vote, <<>>))
    /\ elected' = <<>>
    /\ i' = 0
    /\ pc' = "spsv"
    /\ UNCHANGED <<vote, ballots, seats, counts, sortedOptions, results, candidateScores,
                   result, counted>>
    /\ UNCHANGED callerVars

\* One iteration of tallySPSV's while loop.
SPSVRound ==
    /\ pc = "spsv"
    /\ Len(elected) < seatCount
    /\ candidateScores' = spsvScores(virtualBallots, elected)
    /\ elected' = spsvRound(virtualBallots, sortedCandidates, elected)
    /\ UNCHANGED <<vote, ballots, seats, pc, counts, sortedOptions, results,
                   virtualBallots, sortedCandidates, seatCount, i, result, counted>>
    /\ UNCHANGED callerVars

\* tallySPSV returns elected, which tally assigns to result.
SPSVReturn ==
    /\ pc = "spsv"
    /\ ~(Len(elected) < seatCount)
    /\ result' = elected
    /\ pc' = "replay"
    /\ UNCHANGED <<vote, ballots, seats, counts, sortedOptions, results, virtualBallots,
                   sortedCandidates, seatCount, candidateScores, elected, i, counted>>
    /\ UNCHANGED callerVars

\* The next iteration of tally's for loop calls tallySPSV with the previous
\* result, filtered, as preElected and resigned.slice(0, i) as resigned.
ReplayStepWholeList ==
    /\ pc = "replay"
    /\ i + 1 <= Len(vote.resigned)
    /\ LET resignedSlice == vote.resigned
           sorted == spsvCandidates(vote, resignedSlice)
       IN /\ virtualBallots' = spsvVirtualBallots(vote, ballots)
          /\ sortedCandidates' = sorted
          /\ seatCount' = spsvSeatCount(vote, seats, sorted)
          /\ elected' = replayPreElected(result, resignedSlice)
    /\ i' = i + 1
    /\ pc' = "spsv"
    /\ UNCHANGED <<vote, ballots, seats, counts, sortedOptions, results, candidateScores,
                   result, counted>>
    /\ UNCHANGED callerVars

ReplayStep ==
    /\ pc = "replay"
    /\ i + 1 <= Len(vote.resigned)
    /\ LET resignedSlice == SubSeq(vote.resigned, 1, i + 1)
           sorted == spsvCandidates(vote, resignedSlice)
       IN /\ virtualBallots' = spsvVirtualBallots(vote, ballots)
          /\ sortedCandidates' = sorted
          /\ seatCount' = spsvSeatCount(vote, seats, sorted)
          /\ elected' = replayPreElected(result, resignedSlice)
    /\ i' = i + 1
    /\ pc' = "spsv"
    /\ UNCHANGED <<vote, ballots, seats, counts, sortedOptions, results, candidateScores,
                   result, counted>>
    /\ UNCHANGED callerVars

\* The for loop is over: tally returns result.
TallyReturn ==
    /\ pc = "replay"
    /\ ~(i + 1 <= Len(vote.resigned))
    /\ pc' = "done"
    /\ UNCHANGED <<vote, ballots, seats, counts, sortedOptions, results, virtualBallots,
                   sortedCandidates, seatCount, candidateScores, elected, i, result, counted>>
    /\ UNCHANGED callerVars

Next ==
    \/ FPTPStart
    \/ FPTPCount
    \/ FPTPSort
    \/ FPTPRound
    \/ FPTPReturn
    \/ SPSVStart
    \/ SPSVRound
    \/ SPSVReturn
    \/ ReplayStep
    \/ TallyReturn

Spec == Init /\ [][Next]_vars

\* ------------------------------------------------ tally, invoked again
\* The caller keeps the returned value and invokes tally on the same
\* arguments.  Nothing is reset here: what an invocation starts from is what
\* its own code initialises.
Reinvoke ==
    /\ pc = "done"
    /\ Len(earlier) + 1 < MaxCalls
    /\ earlier' = Append(earlier, result)
    /\ pc' = "start"
    /\ UNCHANGED <<vote, ballots, seats, counts, sortedOptions, results, virtualBallots,
                   sortedCandidates, seatCount, candidateScores, elected, i, result,
                   counted, shouldTally, ranking, winners>>
    /\ UNCHANGED clientVars

NextTwice ==
    \/ Next
    \/ Reinvoke

SpecTwice == Init /\ [][NextTwice]_vars

\* ------------------------------------------- kotzePereira on one ballot
\* Any score ballot: some identifiers rated, in any order, one entry each,
\* with ratings up to MaxRating + 1.
AnyRatingLists ==
    UNION {{[k \in 1..Len(q) |-> [optionId |-> q[k], rating |-> f[q[k]]]] :
                f \in [Range(q) -> 0..(MaxRating + 1)]} :
           q \in InjectiveSeqs(Ids, NumIds)}

RatingBounds ==
    {[tally |-> "spsv", positions |-> 1, min |-> lo, max |-> hi] :
         lo \in 0..(MaxRating + 1), hi \in 0..(MaxRating + 1)}

\* kotzePereira(ballot, type) is entered: i = type.min, no virtual ballot yet.
InitKP ==
    /\ vote \in [type : {t \in RatingBounds : t.min <= t.max},
                 options : {[k \in 1..NumIds |-> [id |-> k]]},
                 resigned : {<<>>}]
    /\ ballots \in {<<[ratingPerOption |-> r]>> : r \in AnyRatingLists}
    /\ seats = 0
    /\ pc = "kp"
    /\ counts = NoCounts
    /\ sortedOptions = <<>>
    /\ results = <<>>
    /\ virtualBallots = <<>>
    /\ sortedCandidates = <<>>
    /\ seatCount = 0
    /\ candidateScores = NoCounts
    /\ elected = <<>>
    /\ i = vote.type.min
    /\ result = <<>>
    /\ counted = 0
    /\ shouldTally = FALSE
    /\ ranking = <<>>
    /\ winners = <<>>
    /\ earlier = <<>>
    /\ ClientConstructed

\* One iteration of kotzePereira's for loop.
KPStep ==
    /\ pc = "kp"
    /\ i <= vote.type.max
    /\ virtualBallots' = Append(virtualBallots, kpVirtualBallot(ballots[1], i))
    /\ i' = i + 1
    /\ UNCHANGED <<vote, ballots, seats, pc, counts, sortedOptions, results,
                   sortedCandidates, seatCount, candidateScores, elected, result, counted>>
    /\ UNCHANGED callerVars

\* kotzePereira returns virtualBallots.
KPReturn ==
    /\ pc = "kp"
    /\ ~(i <= vote.type.max)
    /\ pc' = "kpdone"
    /\ UNCHANGED <<vote, ballots, seats, counts, sortedOptions, results, virtualBallots,
                   sortedCandidates, seatCount, candidateScores, elected, i, result, counted>>
    /\ UNCHANGED callerVars

NextKP ==
    \/ KPStep
    \/ KPReturn

SpecKP == InitKP /\ [][NextKP]_vars

\* The loop and the function agree on the returned virtual ballots.
KPStepsAgree == pc = "kpdone" => virtualBallots = kotzePereira(ballots[1], vote.type)

\* The stepwise run and the function agree on the returned value.
StepsAgreeWithTally == pc = "done" => result = tally(vote, ballots, seats)

\* ------------------------------------------------- the rounds, as states
DeclaredIds == {vote.options[k].id : k \in 1..Len(vote.options)}

\* resigned.slice(0, i): the resignations the replay has reached.
ResignedSoFar == Range(SubSeq(vote.resigned, 1, i))

\* The preElected argument of the tallySPSV call in progress.
CallPreElected ==
    IF i = 0 THEN <<>> ELSE SelectSeq(result, LAMBDA x : x \notin ResignedSoFar)

\* A state just after an iteration of tallySPSV's loop: the latest entry of
\* elected is that round's winner, candidateScores that round's scores.
SPSVRoundDone == pc = "spsv" /\ Len(elected) > Len(CallPreElected)

ElectedBefore == SubSeq(elected, 1, Len(elected) - 1)

SPSVWinner == elected[Len(elected)]

\* The candidates that were neither elected nor resigned when the round began.
SPSVPool == DeclaredIds \ (Range(ElectedBefore) \cup ResignedSoFar)

\* A state just after an iteration of tallyFPTP's loop.
FPTPRoundDone == pc = "fptp" /\ Len(results) >= 1

ResultsBefore == SubSeq(results, 1, Len(results) - 1)

FPTPWinner == results[Len(results)]

FPTPPool == DeclaredIds \ Range(ResultsBefore)

\* C1's score of candidate c: over the virtual ballots that contain c, the sum
\* of 1 / (1 + number of already-elected identifiers on the ballot).
C1_Score(c) ==
    SumTo([b \in 1..Len(virtualBallots) |->
              IF c \in Range(virtualBallots[b])
              THEN Scale \div
                   (1 + Cardinality(Range(virtualBallots[b]) \cap Range(ElectedBefore)))
              ELSE 0],
          Len(virtualBallots))

\* C1: in every seat-filling round of the spsv tally each still-unelected
\* candidate's score is the sum, over the virtual ballots containing it, of
\* 1 / (1 + already-elected identifiers on the ballot), and the round elects a
\* candidate of maximal score among those neither elected nor resigned.
C1_RoundScoresAndElectsMaximum ==
    SPSVRoundDone =>
        /\ \A c \in DeclaredIds \ Range(ElectedBefore) : candidateScores[c] = C1_Score(c)
        /\ \A c \in SPSVPool : candidateScores[c] <= candidateScores[SPSVWinner]
        /\ SPSVPool # {} => SPSVWinner \in SPSVPool

\* A later round in which a ballot shared with an elected candidate counts for
\* less and the pool holds candidates of different scores.
C1_Witness ==
    /\ SPSVRoundDone
    /\ Len(ElectedBefore) >= 1
    /\ \E c \in SPSVPool : candidateScores[c] < candidateScores[SPSVWinner]
    /\ \E b \in 1..Len(virtualBallots) :
           /\ SPSVWinner \in Range(virtualBallots[b])
           /\ Range(virtualBallots[b]) \cap Range(ElectedBefore) # {}

\* C2: for a first-past-the-post vote with seats <= number of options, each
\* round appends an option of maximal count among the options not yet in the
\* result, and the options left for later rounds exclude every winner so far.
C2_FPTPRoundAppendsMaximum ==
    (FPTPRoundDone /\ seatCount <= Len(vote.options)) =>
        /\ FPTPWinner \in FPTPPool
        /\ \A o \in FPTPPool : counts[o] <= counts[FPTPWinner]
        /\ Range(sortedOptions) = DeclaredIds \ Range(results)

\* A second round, won with fewer votes than the first.
C2_Witness ==
    /\ FPTPRoundDone
    /\ seatCount <= Len(vote.options)
    /\ Len(results) = 2
    /\ counts[results[2]] < counts[results[1]]
    /\ \E o \in FPTPPool : counts[o] < counts[FPTPWinner]

\* C3: in both strategies the winner of a round is the smallest identifier
\* among the remaining candidates of highest score: no remaining candidate
\* that scores at least as much as the winner has a smaller identifier.
C3_TieGoesToSmallestId ==
    /\ FPTPRoundDone =>
           /\ FPTPPool # {} => FPTPWinner \in FPTPPool
           /\ \A o \in FPTPPool : counts[o] >= counts[FPTPWinner] => FPTPWinner <= o
    /\ SPSVRoundDone =>
           /\ SPSVPool # {} => SPSVWinner \in SPSVPool
           /\ \A c \in SPSVPool :
                  candidateScores[c] >= candidateScores[SPSVWinner] => SPSVWinner <= c

\* A tie for the highest score in a round of an spsv vote whose options are
\* declared in descending order, with votes cast.
C3_Witness ==
    /\ SPSVRoundDone
    /\ Len(vote.options) >= 2
    /\ vote.options[1].id > vote.options[2].id
    /\ candidateScores[SPSVWinner] > 0
    /\ \E c \in SPSVPool : c # SPSVWinner /\ candidateScores[c] = candidateScores[SPSVWinner]
    /\ \E c \in SPSVPool : candidateScores[c] < candidateScores[SPSVWinner]

\* The identifiers the source ballot rates at least t.
RatedAtLeast(t) ==
    {o \in Ids : \E k \in 1..Len(ballots[1].ratingPerOption) :
        /\ ballots[1].ratingPerOption[k].optionId = o
        /\ ballots[1].ratingPerOption[k].rating >= t}

\* On how many of the returned virtual ballots identifier o appears.
AppearsOn(o) == Cardinality({j \in 1..Len(virtualBallots) : o \in Range(virtualBallots[j])})

\* C4: the transform of one score ballot yields max - min + 1 virtual ballots,
\* the one of threshold t holding exactly the options rated >= t; an option
\* rated r within min..max is on r - min + 1 of them, an unrated one on none.
C4_KotzePereiraThresholds ==
    pc = "kpdone" =>
        /\ Len(virtualBallots) = vote.type.max - vote.type.min + 1
        /\ \A j \in 1..Len(virtualBallots) :
               /\ Range(virtualBallots[j]) = RatedAtLeast(vote.type.min + j - 1)
               /\ Injective(virtualBallots[j])
        /\ \A k \in 1..Len(ballots[1].ratingPerOption) :
               LET e == ballots[1].ratingPerOption[k]
               IN (vote.type.min <= e.rating /\ e.rating <= vote.type.max) =>
                      AppearsOn(e.optionId) = e.rating - vote.type.min + 1
        /\ \A o \in Ids \ RatedAtLeast(0) : AppearsOn(o) = 0

\* A transform with min > 0 and several thresholds of a ballot that leaves an
\* option unrated and rates the others differently, not in identifier order.
C4_Witness ==
    /\ pc = "kpdone"
    /\ vote.type.min = 1
    /\ vote.type.max = 2
    /\ Len(ballots[1].ratingPerOption) = 2
    /\ ballots[1].ratingPerOption[1].optionId > ballots[1].ratingPerOption[2].optionId
    /\ ballots[1].ratingPerOption[1].rating = 1
    /\ ballots[1].ratingPerOption[2].rating = 2
    /\ Len(virtualBallots) = 2

IsSPSV == vote.type.tally = "spsv"

\* What tally returns for the same vote with only its first k resignations.
ResultAfter(k) == tally([vote EXCEPT !.resigned = SubSeq(@, 1, k)], ballots, seats)

\* C5: after replay step i, and so in the returned result, no identifier of
\* resigned[1..i] is in the result, nor in the allocation being built.
C5_ResignedNeverInResult ==
    (IsSPSV /\ i >= 1) =>
        /\ \A k \in 1..i : ~includes(elected, vote.resigned[k])
        /\ pc \in {"replay", "done"} => \A k \in 1..i : ~includes(result, vote.resigned[k])

\* A winner resigned, its seat was refilled, and in the refilling round the
\* resigned candidate outscored the candidate who got the seat.
C5_Witness ==
    /\ IsSPSV
    /\ pc = "done"
    /\ Len(vote.resigned) = 1
    /\ includes(ResultAfter(0), vote.resigned[1])
    /\ Len(result) = Len(ResultAfter(0))
    /\ result[Len(result)] \in DeclaredIds
    /\ candidateScores[vote.resigned[1]] > candidateScores[result[Len(result)]]

\* The winners of the previous step that have not resigned, in their order.
StillServing == SelectSeq(result, LAMBDA x : x \notin ResignedSoFar)

\* Replay step i is about to return elected; result is the previous step's.
ReplayStepEnds == IsSPSV /\ pc = "spsv" /\ i >= 1 /\ ~(Len(elected) < seatCount)

\* C6: in replay step i every previous winner outside resigned[1..i] stays a
\* winner, those winners lead the new result in their previous order, and at
\* most one candidate is appended after them, only if resigned[i] held a seat.
C6_ReplayKeepsServingWinners ==
    ReplayStepEnds =>
        /\ \A x \in Range(result) \ ResignedSoFar : includes(elected, x)
        /\ IsPrefix(StillServing, elected)
        /\ Len(elected) <= Len(StillServing) + 1
        /\ Len(elected) > Len(StillServing) => includes(result, vote.resigned[i])

\* The first of two winners resigns: the second moves to the front and a
\* declared candidate is appended for the vacant seat.
C6_Witness ==
    /\ ReplayStepEnds
    /\ Len(result) = 2
    /\ result[1] = vote.resigned[i]
    /\ Len(elected) = 2
    /\ elected[1] = result[2]
    /\ elected[2] \in DeclaredIds
    /\ elected[2] > elected[1]

\* Every resignation names a candidate who held a seat when resigning.
ResignedWereWinners ==
    \A k \in 1..Len(vote.resigned) : includes(ResultAfter(k - 1), vote.resigned[k])

\* C7 as stated: if every resignation names a winner of its time, the final
\* result is as long as the result of the tally without resignations.
C7_SameLengthAsBase ==
    (IsSPSV /\ pc = "done" /\ ResignedWereWinners) => Len(result) = Len(ResultAfter(0))

\* C7 amended: the same, provided seats is passed explicitly, or at least
\* type.positions options are outside the resignation list, or nobody resigned.
C7_SameLengthWhenCandidatesRemain ==
    (/\ IsSPSV
     /\ pc = "done"
     /\ ResignedWereWinners
     /\ \/ seats # 0
        \/ vote.resigned = <<>>
        \/ vote.type.positions <= Cardinality(DeclaredIds \ Range(vote.resigned)))
    => Len(result) = Len(ResultAfter(0))

\* Two winners resigned one after the other and both seats were refilled.
C7_Witness ==
    /\ IsSPSV
    /\ pc = "done"
    /\ seats = 0
    /\ Len(vote.resigned) = 2
    /\ ResignedWereWinners
    /\ vote.type.positions <= Cardinality(DeclaredIds \ Range(vote.resigned))
    /\ Len(result) = vote.type.positions
    /\ Range(result) \subseteq DeclaredIds

\* C8: without resignations, for seats = n >= 1 and n + 1 <= number of
\* options, the result for n seats is a prefix of the result for n + 1 seats.
C8_SeatsPrefixChain ==
    (/\ pc = "done"
     /\ vote.resigned = <<>>
     /\ seats >= 1
     /\ seats + 1 <= Len(vote.options))
    => IsPrefix(result, tally(vote, ballots, seats + 1))

\* Two seats of three options filled from score ballots, the second seat not
\* going to the next identifier in order.
C8_Witness ==
    /\ pc = "done"
    /\ IsSPSV
    /\ vote.resigned = <<>>
    /\ seats = 2
    /\ Len(vote.options) = 3
    /\ Len(ballots) = 2
    /\ result[1] > result[2]
    /\ Len(tally(vote, ballots, 3)) = 3

\* C9: every element of the sequence tally returns is the identifier of an
\* option declared in vote.options, for every input.
C9_ResultWithinDeclaredOptions == pc = "done" => Range(result) \subseteq DeclaredIds

\* C10: for a first-past-the-post vote the result has min(seats, number of
\* options) entries, so fewer than seats when the options run out.
C10_FPTPLengthIsMinSeatsOptions ==
    (pc = "done" /\ ~IsSPSV) => Len(result) = Min(fptpSeats(seats), Len(vote.options))

\* ------------------------------------------------ the ballot loop of FPTP
IsFPTP == vote.type.tally = "first-past-the-post"

\* The ballots the counting loop has gone through that select option x.
CountedFor(x) == {k \in 1..counted : ballots[k].selectedOptionId = x}

\* C11: in an FPTP tally a ballot whose selection is listed in vote.resigned
\* adds to no option's count, and every other ballot adds exactly 1 to the
\* count of its selected option and to no other: after any number of loop
\* iterations the count of a resigned option is 0 and the count of any other
\* key is the number of ballots gone through that select it.
C11_BallotsCountOncePerSelection ==
    (IsFPTP /\ pc \in {"count", "fptp", "done"}) =>
        \A x \in MapKeys :
            counts[x] = IF x \in Range(vote.resigned) THEN 0
                        ELSE Cardinality(CountedFor(x))

\* The loop has gone through a ballot for a resigned option and then through
\* two ballots for one other option.
C11_Witness ==
    /\ IsFPTP
    /\ pc = "count"
    /\ counted = 3
    /\ ballots[1].selectedOptionId \in Range(vote.resigned)
    /\ ballots[2].selectedOptionId \notin Range(vote.resigned)
    /\ ballots[3] = ballots[2]
    /\ counts[ballots[2].selectedOptionId] = 2

\* C12: an FPTP tally over an empty ballot list with seats at most the number
\* of options returns exactly the first seats option identifiers in ascending
\* order, whatever the declared order: the k-th entry is the declared
\* identifier with exactly k - 1 declared identifiers below it.
C12_NoBallotsGivesLowestIds ==
    (IsFPTP /\ pc = "done" /\ ballots = <<>> /\ seatCount <= Len(vote.options)) =>
        /\ Len(result) = seatCount
        /\ \A k \in 1..Len(result) :
               /\ result[k] \in DeclaredIds
               /\ Cardinality({o \in DeclaredIds : o < result[k]}) = k - 1

\* Two seats of three options declared out of order, no ballot cast.
C12_Witness ==
    /\ IsFPTP
    /\ pc = "done"
    /\ ballots = <<>>
    /\ seats = 2
    /\ Len(vote.options) = 3
    /\ vote.options[1].id > vote.options[2].id
    /\ Len(result) = 2
    /\ result[1] < result[2]

\* ------------------------------------------- tallySPSV with a seeded call
\* A four-candidate election rated on 0..MaxRating + 1.
WideOptions == [k \in 1..(NumIds + 1) |-> [id |-> k]]

WideType == [tally |-> "spsv", positions |-> 1, min |-> 0, max |-> MaxRating + 1]

WideBallots ==
    {[ratingPerOption |-> RatingEntries(f, optionIds([options |-> WideOptions]))] :
         f \in [WideIds -> 0..(MaxRating + 1)]}

\* The preElected arguments: two distinct candidates in either order.
Seeds == {q \in InjectiveSeqs(WideIds, 2) : Len(q) = 2}

\* tallySPSV(voteAndBallots, seats, preElected) is entered with one seat more
\* than preElected holds: the state when its while loop is reached.
InitSeed ==
    /\ vote = [type |-> WideType, options |-> WideOptions, resigned |-> <<>>]
    /\ ballots \in SeqsUpTo(WideBallots, MaxBallots)
    /\ elected \in Seeds
    /\ seats = Len(elected) + 1
    /\ seatCount = spsvSeatCount(vote, seats, spsvCandidates(vote, <<>>))
    /\ virtualBallots = spsvVirtualBallots(vote, ballots)
    /\ sortedCandidates = spsvCandidates(vote, <<>>)
    /\ pc = "spsv"
    /\ counts = NoCounts
    /\ sortedOptions = <<>>
    /\ results = <<>>
    /\ candidateScores = NoCounts
    /\ i = 0
    /\ result = <<>>
    /\ counted = 0
    /\ shouldTally = FALSE
    /\ ranking = <<>>
    /\ winners = <<>>
    /\ earlier = <<>>
    /\ ClientConstructed

NextSeed ==
    \/ SPSVRound
    \/ SPSVReturn

SpecSeed == InitSeed /\ [][NextSeed]_vars

\* The orders in which the entries of s can be listed.
Orderings(s) == {q \in [1..Len(s) -> Range(s)] : Range(q) = Range(s)}

\* The seeded call has run its one loop iteration.
SeedRoundDone == pc = "spsv" /\ Len(elected) = seatCount

\* C13: within one spsv allocation no score is carried from seat to seat: the
\* candidate elected next depends only on the virtual ballots, the pool and
\* the set of already-elected identifiers.  After the round of a seeded call,
\* every order of the same seed yields the round's scores and its winner.
C13_NextSeatIgnoresSeedOrder ==
    SeedRoundDone =>
        \A q \in Orderings(ElectedBefore) :
            /\ spsvScores(virtualBallots, q) = candidateScores
            /\ spsvRound(virtualBallots, sortedCandidates, q)[Len(q) + 1] = SPSVWinner

\* A seed listed in descending order, and a round decided by score: the
\* winner has the larger identifier of the two candidates left.
C13_Witness ==
    /\ SeedRoundDone
    /\ elected[1] > elected[2]
    /\ \E o \in WideIds \ Range(elected) :
           o < SPSVWinner /\ candidateScores[o] < candidateScores[SPSVWinner]

\* C14: the result of tally does not depend on the order in which vote.options
\* lists the options, for both tally types: the returned value equals the
\* tally of the same ballots, seats and resignation list under every other
\* order of the same options.
C14_OptionOrderIrrelevant ==
    pc = "done" =>
        \A p \in Orderings(vote.options) :
            tally([vote EXCEPT !.options = p], ballots, seats) = result

\* A finished tally of three options declared in descending order in which a
\* tie sent the first seat to the smallest identifier, declared last.
C14_Witness ==
    /\ pc = "done"
    /\ Len(vote.options) = 3
    /\ vote.options[1].id > vote.options[2].id
    /\ vote.options[2].id > vote.options[3].id
    /\ ballots # <<>>
    /\ result # <<>>
    /\ result[1] = vote.options[3].id

\* C15: tally is deterministic: two invocations on equal vote, ballots, seats
\* and resignation list return equal results, whatever an earlier invocation
\* left behind.  Every value an earlier invocation on the same arguments
\* returned equals the value returned now.
C15_SameInputsSameResult ==
    pc = "done" => \A k \in 1..Len(earlier) : earlier[k] = result

\* A second invocation has returned for an spsv vote with ballots and a
\* resignation replay.
C15_Witness ==
    /\ pc = "done"
    /\ Len(earlier) = 1
    /\ result # <<>>
    /\ ballots # <<>>
    /\ vote.resigned # <<>>
    /\ vote.type.tally = "spsv"

\* C16: tally has no side effect on its inputs: no step of an invocation, the
\* repeated tallySPSV calls of the resignation replay included, changes
\* vote.options (contents and order), vote.resigned or the ballots with their
\* ratings.
C16_InputsUntouched == [][vote' = vote /\ ballots' = ballots]_vars

\* A tally that went through two replay calls has returned, and the options
\* are still listed in their declared, descending order.
C16_Witness ==
    /\ pc = "done"
    /\ vote.type.tally = "spsv"
    /\ i = 2
    /\ Len(vote.resigned) = 2
    /\ ballots # <<>>
    /\ Len(vote.options) = 3
    /\ vote.options[1].id > vote.options[2].id
    /\ vote.options[2].id > vote.options[3].id
    /\ result # <<>>

\* ------------------------------------------------------ VoteCard.render
\* render is entered with the card's vote and ballots; it passes no seats.
InitRender ==
    /\ \/ /\ vote \in [type : ChooseOneBallotType, options : OptionLists,
                       resigned : ResignedLists]
          /\ ballots \in SeqsUpTo(ChooseOneBallots, MaxChoices)
       \/ /\ vote \in [type : RateOptionsBallotType, options : OptionLists,
                       resigned : ResignedLists]
          /\ ballots \in SeqsUpTo(RateOptionsBallots(vote.options), MaxBallots)
    /\ seats = 0
    /\ pc = "render"
    /\ counts = NoCounts
    /\ sortedOptions = <<>>
    /\ results = <<>>
    /\ virtualBallots = <<>>
    /\ sortedCandidates = <<>>
    /\ seatCount = 0
    /\ candidateScores = NoCounts
    /\ elected = <<>>
    /\ i = 0
    /\ result = <<>>
    /\ counted = 0
    /\ shouldTally = FALSE
    /\ ranking = <<>>
    /\ winners = <<>>
    /\ earlier = <<>>
    /\ ClientConstructed

tallyVars == <<seats, counts, sortedOptions, results, virtualBallots, sortedCandidates,
               seatCount, candidateScores, elected, i, result, counted, earlier>>

\* let shouldTally = this.props.voteAndBallots.ballots.length > 0
RenderDecideAlways ==
    /\ pc = "render"
    /\ shouldTally' = (Len(ballots) >= 0)
    /\ pc' = "decided"
    /\ UNCHANGED <<vote, ballots, ranking, winners>>
    /\ UNCHANGED tallyVars
    /\ UNCHANGED clientVars

RenderDecide ==
    /\ pc = "render"
    /\ shouldTally' = (Len(ballots) > 0)
    /\ pc' = "decided"
    /\ UNCHANGED <<vote, ballots, ranking, winners>>
    /\ UNCHANGED tallyVars
    /\ UNCHANGED clientVars

\* shouldTally: ranking = tallyOrder(voteAndBallots), winners = tally(voteAndBallots).
RenderTally ==
    /\ pc = "decided"
    /\ shouldTally
    /\ ranking' = tallyOrder(vote, ballots)
    /\ winners' = tally(vote, ballots, seats)
    /\ pc' = "ranked"
    /\ UNCHANGED <<vote, ballots, shouldTally>>
    /\ UNCHANGED tallyVars
    /\ UNCHANGED clientVars

\* Otherwise: ranking = vote.options.map(x => x.id), winners = [].
RenderFallback ==
    /\ pc = "decided"
    /\ ~shouldTally
    /\ ranking' = optionIds(vote)
    /\ winners' = <<>>
    /\ pc' = "ranked"
    /\ UNCHANGED <<vote, ballots, shouldTally>>
    /\ UNCHANGED tallyVars
    /\ UNCHANGED clientVars

\* The options are put in ranking order, in place, and rendered.
RenderSort ==
    /\ pc = "ranked"
    /\ vote' = [vote EXCEPT !.options = sortByRanking(@, ranking)]
    /\ pc' = "rendered"
    /\ UNCHANGED <<ballots, shouldTally, ranking, winners>>
    /\ UNCHANGED tallyVars
    /\ UNCHANGED clientVars

NextRender ==
    \/ RenderDecide
    \/ RenderTally
    \/ RenderFallback
    \/ RenderSort

SpecRender == InitRender /\ [][NextRender]_vars

\* C17: when no ballots have been cast the ranking used to order the options
\* is the declared option order unchanged and no tally is run (the winner
\* list is empty); a tally is attempted only when at least one ballot exists.
C17_NoBallotsNoTally ==
    /\ pc \in {"decided", "ranked", "rendered"} => (shouldTally <=> Len(ballots) >= 1)
    /\ (pc \in {"ranked", "rendered"} /\ ballots = <<>>) =>
           /\ ranking = optionIds(vote)
           /\ winners = <<>>

\* A card without ballots whose three options are declared in descending
\* order has been rendered in that order.
C17_Witness ==
    /\ pc = "rendered"
    /\ ballots = <<>>
    /\ ~shouldTally
    /\ Len(vote.options) = 3
    /\ vote.options[1].id > vote.options[2].id
    /\ vote.options[2].id > vote.options[3].id
    /\ ranking = optionIds(vote)

\* --------------------------------- tally of a four-candidate spsv election
\* One candidate has resigned; seats is passed and leaves room for one more
\* seat among the candidates that have not resigned.
InitWide ==
    /\ vote \in [type : {WideType}, options : {WideOptions},
                 resigned : {q \in InjectiveSeqs(WideIds, 1) : Len(q) = 1}]
    /\ ballots \in SeqsUpTo(WideBallots, MaxBallots)
    /\ seats \in 1..(NumIds - 1)
    /\ Locals0

NextWide ==
    \/ SPSVStart
    \/ SPSVRound
    \/ SPSVReturn
    \/ ReplayStep
    \/ TallyReturn

SpecWide == InitWide /\ [][NextWide]_vars

\* The candidates that are not listed in vote.resigned.
NonResigned == DeclaredIds \ Range(vote.resigned)

\* The winners of the allocation without resignations, for the same seats.
BaseWinners == Range(tally([vote EXCEPT !.resigned = <<>>], ballots, seats))

\* C18 as stated: for an spsv vote with a non-empty resignation list and
\* n + 1 at most the number of non-resigned options, every candidate in the
\* result for seats = n is also in the result for seats = n + 1.
C18_SeatsMonotoneUnderResignation ==
    (pc = "done" /\ IsSPSV /\ vote.resigned # <<>> /\ seats >= 1
         /\ seats + 1 <= Cardinality(NonResigned)) =>
        Range(result) \subseteq Range(tally(vote, ballots, seats + 1))

\* C18, amended: the same, for resignation lists that name no winner of the
\* allocation for seats = n.
C18_SeatsMonotoneWhenWinnersStay ==
    (pc = "done" /\ IsSPSV /\ vote.resigned # <<>> /\ seats >= 1
         /\ seats + 1 <= Cardinality(NonResigned)
         /\ BaseWinners \cap Range(vote.resigned) = {}) =>
        Range(result) \subseteq Range(tally(vote, ballots, seats + 1))

\* The candidate that resigned won the extra seat of the larger allocation,
\* not a seat of the smaller one, and a different candidate fills it.
C18_Witness ==
    /\ pc = "done"
    /\ IsSPSV
    /\ seats = 1
    /\ ballots # <<>>
    /\ Len(vote.resigned) = 1
    /\ vote.resigned[1] \notin BaseWinners
    /\ vote.resigned[1] \in Range(tally([vote EXCEPT !.resigned = <<>>], ballots, seats + 1))
    /\ Range(result) \subseteq Range(tally(vote, ballots, seats + 1))
    /\ Len(tally(vote, ballots, seats + 1)) = 2

\* ------------------------------------------------------------ termination
\* What each kind of step does to the loop it belongs to.
LoopProgress ==
    /\ FPTPCount => counted' = counted + 1 /\ counted' <= Len(ballots)
    /\ FPTPRound => Len(results') = Len(results) + 1 /\ Len(results') <= seatCount
    /\ FPTPReturn => Len(results) = seatCount
    /\ SPSVRound => Len(elected') = Len(elected) + 1 /\ Len(elected') <= seatCount
    /\ SPSVReturn => Len(elected) = seatCount
    /\ ReplayStep => i' = i + 1 /\ i' <= Len(vote.resigned)
    /\ TallyReturn => i = Len(vote.resigned)

\* The most seats one allocation can be asked to fill.
SeatsAtMost ==
    IF IsFPTP THEN fptpSeats(seats)
    ELSE IF seats # 0 THEN seats ELSE vote.type.positions

\* An upper bound on the steps an invocation still has to take.
StepsLeft ==
    IF pc = "done" THEN 0
    ELSE IF IsFPTP
    THEN IF pc = "start" THEN Len(ballots) + SeatsAtMost + 3
         ELSE IF pc = "count" THEN (Len(ballots) - counted) + SeatsAtMost + 2
         ELSE (seatCount - Len(results)) + 1
    ELSE LET callsLeft == Len(vote.resigned) - i
         IN IF pc = "start" THEN (Len(vote.resigned) + 1) * (SeatsAtMost + 2) + 1
            ELSE IF pc = "spsv"
            THEN callsLeft * (SeatsAtMost + 2) + (seatCount - Len(elected)) + 2
            ELSE callsLeft * (SeatsAtMost + 2) + 1

\* A loop that is to run another iteration has an iteration that lengthens
\* its array.
RoundsLengthen ==
    /\ (pc = "fptp" /\ Len(results) < seatCount) =>
           Len(fptpRound(results, sortedOptions, counts)[1]) = Len(results) + 1
    /\ (pc = "spsv" /\ Len(elected) < seatCount) =>
           Len(spsvRound(virtualBallots, sortedCandidates, elected)) = Len(elected) + 1

\* C19: every call of tally terminates: each iteration of a seat-filling loop
\* adds exactly one entry and the loop stops once the result has the target
\* length, and the replay runs one allocation per resignation, also when the
\* pool is exhausted before all seats are filled.  Every step lowers a bound,
\* never negative, on the steps left, and no iteration leaves its loop as it
\* found it.
C19_TallyTerminates ==
    /\ []RoundsLengthen
    /\ [][LoopProgress /\ StepsLeft' < StepsLeft /\ StepsLeft' >= 0]_vars

\* A replay has returned after filling a seat from an exhausted pool.
C19_Witness ==
    /\ pc = "done"
    /\ IsSPSV
    /\ i = Len(vote.resigned)
    /\ i >= 1
    /\ Undefined \in Range(result)
    /\ ballots # <<>>

\* C20: for an FPTP vote with at least one option that has not resigned, the
\* single-seat result of tally is never an option listed in vote.resigned.
C20_FPTPWinnerNotResigned ==
    (pc = "done" /\ IsFPTP /\ seatCount = 1 /\ NonResigned # {}) =>
        result[1] \notin Range(vote.resigned)

\* ------------------------------------------------ the returned sequence
\* The candidates open to the allocation whose result is in result: for spsv
\* the options outside resigned.slice(0, i), for FPTP those outside resigned.
Available == IF IsFPTP THEN NonResigned ELSE DeclaredIds \ ResignedSoFar

\* result holds a returned allocation: the base one, a replay step's, or
\* tally's own.
ResultAssigned == pc \in {"replay", "done"}

\* C21: the sequence returned by tally never holds the same identifier twice,
\* after the base allocation and after every replay step, whenever the seat
\* count is at most the number of available (non-resigned) candidates.
C21_NoDuplicateWinners ==
    (ResultAssigned /\ seatCount <= Cardinality(Available)) => Injective(result)

\* A replay step has returned two distinct winners, one of them a
\* replacement for a winner that resigned.
C21_Witness ==
    /\ pc = "replay"
    /\ IsSPSV
    /\ i = 1
    /\ seatCount = 2
    /\ Len(result) = 2
    /\ result[1] # result[2]
    /\ Undefined \notin Range(result)
    /\ vote.resigned[1] \in BaseWinners
    /\ ballots # <<>>

\* ------------------------------------------------- the order of the input
\* The rearrangements of a sequence, equal entries included.
Permuted(s) ==
    {[k \in 1..Len(s) |-> s[f[k]]] :
         f \in {g \in [1..Len(s) -> 1..Len(s)] : Range(g) = 1..Len(s)}}

\* The ballot lists that hold the ballots of blts in the same order, each
\* score ballot with its rating entries rearranged in any way.
RECURSIVE EntriesPermuted(_)
EntriesPermuted(blts) ==
    IF IsFPTP \/ blts = <<>> THEN {blts}
    ELSE {<<[ratingPerOption |-> r]>> \o rest :
              r \in Permuted(Head(blts).ratingPerOption),
              rest \in EntriesPermuted(Tail(blts))}

\* tally on the votes whose options are declared in ascending order.
InitAscending == Init /\ optionIds(vote) = sort(optionIds(vote))

SpecAscending == InitAscending /\ [][Next]_vars

\* C22: the result of tally does not depend on the order of the ballots nor
\* on the order of the rating entries inside a score ballot (scores being
\* exact rationals): every rearrangement of the ballot list, with the
\* entries of every score ballot rearranged, gives the returned sequence.
C22_BallotOrderIrrelevant ==
    pc = "done" =>
        \A p \in Permuted(ballots) :
            \A q \in EntriesPermuted(p) : tally(vote, q, seats) = result

\* A finished spsv tally of two different ballots that the scores decided:
\* the first winner is not the smallest identifier.
C22_Witness ==
    /\ pc = "done"
    /\ IsSPSV
    /\ Len(ballots) = 2
    /\ ballots[1] # ballots[2]
    /\ Len(vote.options) = 3
    /\ result # <<>>
    /\ \E o \in DeclaredIds : o < result[1]

\* ------------------------------------------- resignation of a non-winner
\* The replay call in progress, or just returned, is that of a resignation
\* which names none of the winners it was given.
NonWinnerStep ==
    /\ IsSPSV
    /\ pc = "spsv"
    /\ i >= 1
    /\ vote.resigned[i] \notin Range(result)

\* C23: in the spsv replay, a step whose newly added resigned identifier is
\* not among the current winners leaves the result sequence unchanged: its
\* call starts from the whole previous result and runs no round.  The
\* identifier is still outside the candidate pool of that step and of every
\* later step.
C23_NonWinnerResignationKeepsResult ==
    /\ NonWinnerStep => elected = result /\ ~(Len(elected) < seatCount)
    /\ (IsSPSV /\ i >= 1 /\ pc \in {"spsv", "replay", "done"}) =>
           Range(sortedCandidates) \cap ResignedSoFar = {}

\* A non-winner resigned first and the winner second: the seat went to the
\* third option although the non-winner outscores it.
C23_Witness ==
    /\ pc = "done"
    /\ IsSPSV
    /\ i = 2
    /\ seatCount = 1
    /\ Len(result) = 1
    /\ vote.resigned[1] \in DeclaredIds \ BaseWinners
    /\ vote.resigned[2] \in BaseWinners
    /\ result[1] \in DeclaredIds
    /\ candidateScores[vote.resigned[1]] > candidateScores[result[1]]

\* ------------------------------------------------------- DummyAPIClient
\* Array.prototype.splice(index, 1), index counted from 0.
splice(seq, index) == SubSeq(seq, 1, index) \o SubSeq(seq, index + 2, Len(seq))

\* The client has been constructed; no tally is in progress.
InitClient ==
    /\ ClientConstructed
    /\ vote = [type |-> [tally |-> "first-past-the-post"], options |-> <<>>,
               resigned |-> <<>>]
    /\ ballots = <<>>
    /\ seats = 0
    /\ pc = "client"
    /\ counts = NoCounts
    /\ sortedOptions = <<>>
    /\ results = <<>>
    /\ virtualBallots = <<>>
    /\ sortedCandidates = <<>>
    /\ seatCount = 0
    /\ candidateScores = NoCounts
    /\ elected = <<>>
    /\ i = 0
    /\ result = <<>>
    /\ counted = 0
    /\ shouldTally = FALSE
    /\ ranking = <<>>
    /\ winners = <<>>
    /\ earlier = <<>>

\* addRegisteredVoter(username): the name is pushed.
addRegisteredVoter(username) ==
    /\ Len(registeredVoters) < MaxVoters
    /\ registeredVoters' = Append(registeredVoters, username)
    /\ lastCall' = [method |-> "addRegisteredVoter", username |-> username,
                    before |-> registeredVoters]
    /\ UNCHANGED <<vote, ballots, pc, shouldTally, ranking, winners>>
    /\ UNCHANGED tallyVars

\* removeRegisteredVoter(username): the entry at indexOf(username) is spliced
\* out if (index > 0).
removeRegisteredVoter(username) ==
    /\ LET index == indexOf(registeredVoters, username)
       IN registeredVoters' = IF index > 0 THEN splice(registeredVoters, index)
                              ELSE registeredVoters
    /\ lastCall' = [method |-> "removeRegisteredVoter", username |-> username,
                    before |-> registeredVoters]
    /\ UNCHANGED <<vote, ballots, pc, shouldTally, ranking, winners>>
    /\ UNCHANGED tallyVars

NextClient ==
    \/ \E username \in Usernames : addRegisteredVoter(username)
    \/ \E username \in Usernames : removeRegisteredVoter(username)

SpecClient == InitClient /\ [][NextClient]_vars

\* getRegisteredVoters(): the list itself.
getRegisteredVoters == registeredVoters

\* C24: after removeRegisteredVoter(u) completes, u is no longer in the list
\* getRegisteredVoters returns, for every registered voter u and after any
\* sequence of addRegisteredVoter and removeRegisteredVoter calls, and all
\* other registered voters are left in place.
C24_RemovedVoterIsGone ==
    lastCall.method = "removeRegisteredVoter" =>
        /\ ~includes(getRegisteredVoters, lastCall.username)
        /\ SelectSeq(getRegisteredVoters, LAMBDA x : x # lastCall.username)
               = SelectSeq(lastCall.before, LAMBDA x : x # lastCall.username)

====
